---- MODULE Spec2Model ----
(***************************************************************************)
(* Request-execution pipeline of the dash0 API client:                     *)
(*   - rateLimitedTransport (transport.go): a counting permit pool in      *)
(*     front of the base transport;                                        *)
(*   - retryTransport (transport.go): the attempt loop with backoff.       *)
(* Durations are in nanoseconds, as time.Duration is.                      *)
(***************************************************************************)
EXTENDS Integers, Sequences, FiniteSets, TLC

\* ------------------------------------------------------------------ bounds

\* Number of goroutines calling rateLimitedTransport.RoundTrip concurrently.
NumCallers == 3

\* Upper end of the configured concurrency range (NewClient clamps to it).
MaxConcurrentRequests == 10

Callers == 1..NumCallers

VARIABLES
    \* rateLimitedTransport
    limit,        \* size of the semaphore (maxConcurrent)
    cur,          \* semaphore.Weighted: permits currently held
    waiters,      \* semaphore.Weighted: FIFO of callers blocked in Acquire
    lpc,          \* per caller: "idle", "waiting", "inBase", "done", "panicked"
    ctxDone,      \* per caller: the request context is cancelled
    lres,         \* per caller: what RoundTrip returned
    baseCalls,    \* per caller: how often the base transport was invoked
    cancelledWaiting, \* callers whose context was cancelled while blocked in Acquire
    \* retryTransport, one RoundTrip call
    method,       \* req.Method
    ctxMark,      \* what req.Context() holds under idempotentKey
    reqBody,      \* "none", "replayable" (Body and GetBody set), "oneShot" (no GetBody)
    maxRetries,   \* t.maxRetries, as newRetryTransport stored it
    waitMin,      \* t.waitMin
    waitMax,      \* t.waitMax
    rpc,          \* "start", "sleeping", "cancelled", "retry", "done", "panicked";
                  \* "backoff" when backoff is called on its own
    attempt,      \* the loop variable
    calls,        \* invocations of t.base.RoundTrip by this call
    last,         \* (resp, err) of the latest base call
    priorFailed,  \* every base call before the latest ended in an error, 429 or 5xx
    wait,         \* the duration being slept between two attempts
    rctxDone,     \* req.Context() is done
    rres,         \* (resp, err) returned by RoundTrip
    sentBody,     \* body the latest attempt sent: "none", "full", "consumed"
    respBody,     \* body of the latest attempt's response: "none", "open", "closed"
    leaked,       \* a response was dropped with its body still open
    \* Iter, one iterator and the calls made on it
    it,           \* the Iter struct: cur, err, items, idx, hasMore, fetch, cursor
    ctor,         \* the constructor call that built it, with its arguments
    lastNext,     \* what the latest Next() returned: "none", "true", "false"
    looping,      \* no Next() has returned false yet: a `for it.Next()` loop runs
    yielded,      \* Current() after each Next() that returned true, while looping
    pages,        \* the initial page and the pages fetch returned, concatenated
    pageCount,    \* how many pages that is
    fetches,      \* invocations of it.fetch
    prevCursor,   \* the cursor that came with the latest page
    argsOk,       \* every fetch so far was passed the cursor of the page before it
    idle,         \* Next() calls that returned false without fetching
    \* NewClient, one call
    opts,         \* the options passed: per option <<>> or <<value>>
    built,        \* what NewClient returned, and the limits its transports use
    \* one per-resource operation and the predicates applied to its error
    op,           \* which operation: "List", "Get", "Create", "Update", "Delete"
    final,        \* what the binding returned to it: status or error
    opErr,        \* the error the operation returned
    epc,          \* "start", "returned", "classified", "classifiedOther"
    verdicts,     \* the predicates that returned true of opErr
    \* the transport stack: per caller, the retry loop around the limiter
    phase,        \* "attempting", "sleeping", "returned"
    tries,        \* the loop variable attempt of the caller's retry loop
    \* one APIError: the response it is built from, the error, its rendering
    aresp,        \* status, status text, x-trace-id header and body
    apiErr,       \* the *APIError constructed: "none" in kind before that
    rendered      \* what Error() returned, as the parts of the string

lvars == <<limit, cur, waiters, lpc, ctxDone, lres, baseCalls, cancelledWaiting>>

rvars == <<method, ctxMark, reqBody, maxRetries, waitMin, waitMax, rpc, attempt,
           calls, last, priorFailed, wait, rctxDone, rres, sentBody, respBody,
           leaked>>

ivars == <<it, ctor, lastNext, looping, yielded, pages, pageCount, fetches,
           prevCursor, argsOk, idle>>

cvars == <<opts, built>>

evars == <<op, final, opErr, epc, verdicts>>

svars == <<phase, tries>>

avars == <<aresp, apiErr, rendered>>

vars == <<limit, cur, waiters, lpc, ctxDone, lres, baseCalls, cancelledWaiting,
          method, ctxMark, reqBody, maxRetries, waitMin, waitMax, rpc, attempt,
          calls, last, priorFailed, wait, rctxDone, rres, sentBody, respBody,
          leaked,
          it, ctor, lastNext, looping, yielded, pages, pageCount, fetches,
          prevCursor, argsOk, idle,
          opts, built,
          op, final, opErr, epc, verdicts,
          phase, tries,
          aresp, apiErr, rendered>>

\* ------------------------------------------------- rateLimitedTransport

\* What the base transport can do with a forwarded call.
BaseOutcomes == {"resp", "baseErr", "panic"}

RemoveFrom(seq, c) == SelectSeq(seq, LAMBDA x : x # c)

\* semaphore.Acquire succeeds without blocking: a permit is free and nobody queues.
CanAcquire_NoCap(c) == waiters = <<>>
CanAcquire(c) == limit - cur >= 1 /\ waiters = <<>>

\* A blocked waiter is handed a permit: it is first in line and a permit is free.
CanResume(c) == waiters # <<>> /\ Head(waiters) = c /\ limit - cur >= 1

\* `defer t.semaphore.Release(1)`: runs however the base call ended.
ReleasesAfter_OnlyOnResponse(outcome) == outcome = "resp"
ReleasesAfter(outcome) == outcome \in BaseOutcomes

\* Acquire returned an error: RoundTrip returns (nil, err) without forwarding.
AcquireFailed_Forward(c) ==
    /\ lpc' = [lpc EXCEPT ![c] = "inBase"]
    /\ baseCalls' = [baseCalls EXCEPT ![c] = @ + 1]
    /\ UNCHANGED lres
AcquireFailed(c) ==
    /\ lpc' = [lpc EXCEPT ![c] = "done"]
    /\ lres' = [lres EXCEPT ![c] = "ctxErr"]
    /\ UNCHANGED baseCalls

\* RoundTrip entry: Acquire(ctx, 1). A context that is already done fails the
\* acquisition; a free permit is taken and the call is forwarded; otherwise the
\* caller joins the queue and blocks.
LAcquire(c) ==
    /\ lpc[c] = "idle"
    /\ IF ctxDone[c]
         THEN /\ AcquireFailed(c)
              /\ UNCHANGED <<cur, waiters>>
         ELSE IF CanAcquire(c)
           THEN /\ cur' = cur + 1
                /\ lpc' = [lpc EXCEPT ![c] = "inBase"]
                /\ baseCalls' = [baseCalls EXCEPT ![c] = @ + 1]
                /\ UNCHANGED <<waiters, lres>>
           ELSE /\ waiters' = Append(waiters, c)
                /\ lpc' = [lpc EXCEPT ![c] = "waiting"]
                /\ UNCHANGED <<cur, lres, baseCalls>>
    /\ UNCHANGED <<limit, ctxDone, cancelledWaiting>>

\* A blocked Acquire is granted its permit and the call is forwarded.
LResume(c) ==
    /\ lpc[c] = "waiting"
    /\ ~ctxDone[c]
    /\ CanResume(c)
    /\ cur' = cur + 1
    /\ waiters' = Tail(waiters)
    /\ lpc' = [lpc EXCEPT ![c] = "inBase"]
    /\ baseCalls' = [baseCalls EXCEPT ![c] = @ + 1]
    /\ UNCHANGED <<limit, ctxDone, lres, cancelledWaiting>>

\* A blocked Acquire sees ctx.Done(): it leaves the queue and returns ctx.Err().
LAbort(c) ==
    /\ lpc[c] = "waiting"
    /\ ctxDone[c]
    /\ waiters' = RemoveFrom(waiters, c)
    /\ AcquireFailed(c)
    /\ UNCHANGED <<limit, cur, ctxDone, cancelledWaiting>>

\* The forwarded base call ends (response, error or panic); the deferred
\* Release gives the permit back and RoundTrip returns the base result.
LBaseReturn(c) ==
    /\ lpc[c] = "inBase"
    /\ \E outcome \in BaseOutcomes :
         /\ cur' = IF ReleasesAfter(outcome) THEN cur - 1 ELSE cur
         /\ lpc' = [lpc EXCEPT ![c] = IF outcome = "panic" THEN "panicked" ELSE "done"]
         /\ lres' = [lres EXCEPT ![c] = outcome]
    /\ UNCHANGED <<limit, waiters, ctxDone, baseCalls, cancelledWaiting>>

\* The caller's context is cancelled (or its deadline passes) at any time
\* before the call has returned.
LCancel(c) ==
    /\ ~ctxDone[c]
    /\ lpc[c] \in {"idle", "waiting", "inBase"}
    /\ ctxDone' = [ctxDone EXCEPT ![c] = TRUE]
    /\ cancelledWaiting' =
         IF lpc[c] = "waiting" THEN cancelledWaiting \cup {c} ELSE cancelledWaiting
    /\ UNCHANGED <<limit, cur, waiters, lpc, lres, baseCalls>>

\* --------------------------------------------------------- retryTransport

\* MaxRetries: the upper end of the retry range newRetryTransport clamps to.
MaxRetries == 5

\* time.Second, in nanoseconds.
Second == 1000000000

\* Values a context can hold under idempotentKey: nothing, the booleans, or a
\* value of another type.
CtxMarks == {"unset", "true", "false", "string"}

\* Retry-After header values, as character sequences (<<>>: header absent).
RetryAfterHeaders == {<<>>, <<"0">>, <<"2">>, <<"-", "1">>, <<"x">>}

\* Response status codes the base transport answers with.
Statuses == {199, 200, 404, 429, 499, 500, 599, 600}

\* <<method, context value>> of the requests sent: the five methods retried by
\* default, and POST and PATCH under every context value.
RequestKinds ==
    ({"GET", "PUT", "DELETE", "HEAD", "OPTIONS"} \X {"unset"})
        \cup ({"POST", "PATCH"} \X CtxMarks)
        \cup {<<"GET", "true">>, <<"PUT", "false">>}

\* The request kinds of the runs checked for progress: one retried for its
\* method, one retried for its mark, one sent once.
LiveRequestKinds == {<<"GET", "unset">>, <<"POST", "true">>, <<"POST", "unset">>}

\* maxRetries values handed to newRetryTransport.
ConfiguredRetries == -1..(MaxRetries + 1)

\* <<waitMin, waitMax>> handed to newRetryTransport (both positive).
WaitConfigs == {<<1, 3>>, <<1000000, 10000000>>}

NilResp == [kind |-> "nil", status |-> 0, ra |-> <<>>]

Responses == {[kind |-> "resp", status |-> st, ra |-> h] :
                 st \in Statuses, h \in RetryAfterHeaders}

\* Retry-After values handed to backoff on its own: those above, more small
\* ones, 9223372037 (the least number of seconds that is past int64 in
\* nanoseconds), 2^55 and 2^55 + 1, and a number beyond int64.
BackoffHeaders ==
    RetryAfterHeaders \cup
      { <<"1">>, <<"3">>, <<"+", "2">>, <<"1", ".", "5">>,
        <<"9", "2", "2", "3", "3", "7", "2", "0", "3", "7">>,
        <<"3", "6", "0", "2", "8", "7", "9", "7", "0", "1", "8", "9", "6", "3",
          "9", "6", "8">>,
        <<"3", "6", "0", "2", "8", "7", "9", "7", "0", "1", "8", "9", "6", "3",
          "9", "6", "9">>,
        <<"9", "9", "9", "9", "9", "9", "9", "9", "9", "9", "9", "9", "9", "9",
          "9", "9", "9", "9", "9", "9">> }

\* <<waitMin, waitMax>> for backoff on its own: also a waitMin above waitMax,
\* equal ones, and a waitMax above one second.
BackoffWaitConfigs ==
    WaitConfigs \cup {<<8, 4>>, <<4, 100>>, <<1000000, 1000000>>,
                      <<1000000, 2000000000>>}

\* The responses backoff is called with: nil (the attempt ended in an error)
\* or a 429 with any of the headers.
BackoffResponses ==
    {NilResp} \cup {[kind |-> "resp", status |-> 429, ra |-> h] : h \in BackoffHeaders}

\* What t.base.RoundTrip can return: a response with a nil error, or a nil
\* response with an error.
BaseResults == {[resp |-> r, err |-> "nil"] : r \in Responses}
                  \cup {[resp |-> NilResp, err |-> "baseErr"]}

NoResult == [resp |-> NilResp, err |-> "none"]

\* newRetryTransport: maxRetries clamped into 0..5.
ClampRetries_NegativeToOne(n) == IF n < 0 THEN 1 ELSE IF n > MaxRetries THEN MaxRetries ELSE n
ClampRetries(n) == IF n < 0 THEN 0 ELSE IF n > MaxRetries THEN MaxRetries ELSE n

\* context.go isIdempotent: v, ok := ctx.Value(idempotentKey).(bool); ok && v.
IsIdempotentCtx_AnyValue(mark) == mark # "unset"
IsIdempotentCtx(mark) == mark = "true"

\* retryTransport.isIdempotent.
IsIdempotent_AlsoPost(m, mark) ==
    IF m \in {"GET", "PUT", "DELETE", "HEAD", "OPTIONS", "POST"} THEN TRUE
    ELSE IsIdempotentCtx(mark)
IsIdempotent(m, mark) ==
    IF m \in {"GET", "PUT", "DELETE", "HEAD", "OPTIONS"} THEN TRUE
    ELSE IsIdempotentCtx(mark)

\* retryTransport.shouldRetry.
ShouldRetry_From400(resp) ==
    IF resp.kind = "nil" THEN TRUE ELSE resp.status >= 400
ShouldRetry(resp) ==
    IF resp.kind = "nil" THEN TRUE
    ELSE resp.status = 429 \/ resp.status >= 500

\* A 64-bit integer (int, int64, time.Duration) is a word of four 16-bit
\* limbs, least significant first, in two's complement.
Limb == 65536

Zero64 == <<0, 0, 0, 0>>

\* x * k + c on limbs for small k and c; the result has one limb more than x,
\* the carry out of the top limb.
RECURSIVE MulAdd(_, _, _)
MulAdd(x, k, c) ==
    IF x = <<>> THEN <<c>>
    ELSE LET p == Head(x) * k + c
         IN  <<p % Limb>> \o MulAdd(Tail(x), k, p \div Limb)

\* int64 multiplication by a small constant: the carry out is dropped, so the
\* product wraps modulo 2^64 as Go's does.
MulWrap(x, k) == SubSeq(MulAdd(x, k, 0), 1, 4)

IsNegative64(x) == x[4] >= Limb \div 2

\* The words whose value the model's integers can hold, and that value.
FitsInt(x) == x[4] = 0 /\ x[3] = 0 /\ x[2] < Limb \div 2
IntOf(x) == x[2] * Limb + x[1]

\* The durations below zero are not told apart: time.After fires at once for
\* every one of them.
NegativeDuration == -1

\* `x > d` for an int64 x and a duration d the model's integers hold.
GreaterThan(x, d) == ~IsNegative64(x) /\ (~FitsInt(x) \/ IntOf(x) > d)

\* strconv.Atoi on a character sequence: an optional sign, then one or more
\* decimal digits; anything else, and a value outside int64, is an error.
DigitVal == [d \in {"0", "1", "2", "3", "4", "5", "6", "7", "8", "9"} |->
               CASE d = "0" -> 0 [] d = "1" -> 1 [] d = "2" -> 2 [] d = "3" -> 3
                 [] d = "4" -> 4 [] d = "5" -> 5 [] d = "6" -> 6 [] d = "7" -> 7
                 [] d = "8" -> 8 [] d = "9" -> 9]

\* The digits' value as an unsigned word, with `over` set once it passed 2^64.
RECURSIVE DigitsValue(_, _)
DigitsValue(s, acc) ==
    IF s = <<>> THEN acc
    ELSE LET r == MulAdd(acc.mag, 10, DigitVal[Head(s)])
         IN  DigitsValue(Tail(s), [mag |-> SubSeq(r, 1, 4),
                                   over |-> acc.over \/ r[5] # 0])

Atoi(s) ==
    LET signed == s # <<>> /\ Head(s) \in {"+", "-"}
        neg == signed /\ Head(s) = "-"
        digits == IF signed THEN Tail(s) ELSE s
    IN  IF digits = <<>> \/ \E i \in 1..Len(digits) : digits[i] \notin DOMAIN DigitVal
          THEN [ok |-> FALSE, neg |-> FALSE, mag |-> Zero64]
          ELSE LET v == DigitsValue(digits, [mag |-> Zero64, over |-> FALSE])
                   inRange == /\ ~v.over
                              /\ \/ ~IsNegative64(v.mag)
                                 \/ neg /\ v.mag = <<0, 0, 0, Limb \div 2>>
               IN  [ok |-> inRange, neg |-> neg, mag |-> v.mag]

Pow2(n) == 2 ^ n

\* backoff, `err == nil && secs > 0` on a present Retry-After header.
UsesRetryAfter(resp) ==
    /\ resp.kind # "nil"
    /\ resp.ra # <<>>
    /\ Atoi(resp.ra).ok
    /\ ~Atoi(resp.ra).neg
    /\ Atoi(resp.ra).mag # Zero64

\* time.Duration(secs) * time.Second in int64; time.Second is
\* 1000 * 1000 * 1000 nanoseconds.
SecondsToDuration(secs) == MulWrap(MulWrap(MulWrap(secs, 1000), 1000), 1000)

\* backoff, first part: the wait a usable Retry-After header gives.
RetryAfterWait(resp) ==
    LET w == SecondsToDuration(Atoi(resp.ra).mag)
    IN  IF GreaterThan(w, waitMax) THEN waitMax
        ELSE IF IsNegative64(w) THEN NegativeDuration
        ELSE IntOf(w)

\* backoff, second part: waitMin * 2^attempt, capped at waitMax.
ExponentialWait(att) ==
    LET w == waitMin * Pow2(att)
    IN  IF w > waitMax THEN waitMax ELSE w

\* rand.Int63n(n) for n > 0 returns any value of 0..n-1; the lowest, the middle
\* and the highest stand for the draw.
Int63n_Inclusive(n) == {0, n \div 2, n}
Int63n(n) == {0, n \div 2, n - 1}

\* backoff panics: rand.Int63n panics on an argument that is not positive.
BackoffPanics(att, resp) ==
    /\ ~UsesRetryAfter(resp)
    /\ ExponentialWait(att) > 0
    /\ ExponentialWait(att) \div 4 <= 0

\* The durations backoff can return.
Backoff(att, resp) ==
    IF UsesRetryAfter(resp) THEN {RetryAfterWait(resp)}
    ELSE IF ExponentialWait(att) > 0
      THEN {ExponentialWait(att) + j : j \in Int63n(ExponentialWait(att) \div 4)}
      ELSE {ExponentialWait(att)}

\* `attempt > 0 && req.Body != nil && req.GetBody != nil`
ReplaysBody(att) == att > 0 /\ reqBody = "replayable"

\* An attempt that ended in a transport error, a 429 or a 5xx.
FailedRetryably(res) ==
    \/ res.err = "baseErr"
    \/ res.resp.kind = "resp" /\ (res.resp.status = 429 \/ res.resp.status \in 500..599)

\* `attempt >= t.maxRetries`: the attempt just made was the last one allowed.
IsLastAttempt(att) == att >= maxRetries

\* What an attempt sends as the request body: all of it on the first attempt
\* and after a replay; otherwise what the earlier attempt left of req.Body.
BodySent(att) ==
    IF reqBody = "none" THEN "none"
    ELSE IF att = 0 \/ ReplaysBody(att) THEN "full"
    ELSE "consumed"

\* The body of a response as the base transport hands it over.
FreshBody(resp) == IF resp.kind = "nil" THEN "none" ELSE "open"

\* `if resp != nil && resp.Body != nil`: io.Copy(io.Discard, resp.Body) and
\* resp.Body.Close() before backoff.
DrainsAndCloses_Never(resp) == FALSE
DrainsAndCloses(resp) == resp.kind # "nil"

\* `return nil, req.Context().Err()`
CtxDoneResult_LastResponse == last
CtxDoneResult == [resp |-> NilResp, err |-> "ctxErr"]

\* RoundTrip without the retry loop: maxRetries is 0 or the request is not
\* idempotent; the base result is returned as it is.
RDirect ==
    /\ rpc = "start"
    /\ maxRetries = 0 \/ ~IsIdempotent(method, ctxMark)
    /\ \E res \in BaseResults :
         /\ last' = res
         /\ rres' = res
         /\ respBody' = FreshBody(res.resp)
    /\ calls' = calls + 1
    /\ sentBody' = BodySent(0)
    /\ rpc' = "done"
    /\ UNCHANGED <<method, ctxMark, reqBody, maxRetries, waitMin, waitMax, attempt,
                   priorFailed, wait, rctxDone, leaked>>

\* One iteration of the attempt loop, up to its return, its break or the
\* start of the sleep that follows it.
RAttempt ==
    /\ \/ rpc = "retry"
       \/ rpc = "start" /\ maxRetries # 0 /\ IsIdempotent(method, ctxMark)
    /\ \/ \* req.GetBody failed: return nil, bodyErr
          /\ ReplaysBody(attempt)
          /\ rres' = [resp |-> NilResp, err |-> "bodyErr"]
          /\ rpc' = "done"
          /\ leaked' = (leaked \/ respBody = "open")
          /\ UNCHANGED <<calls, last, priorFailed, wait, sentBody, respBody>>
       \/ \E res \in BaseResults :
            /\ calls' = calls + 1
            /\ last' = res
            /\ priorFailed' = (priorFailed /\ (calls = 0 \/ FailedRetryably(last)))
            /\ sentBody' = BodySent(attempt)
            /\ leaked' = (leaked \/ respBody = "open")
            /\ IF res.err = "nil" /\ ~ShouldRetry(res.resp)
                 THEN /\ rres' = [resp |-> res.resp, err |-> "nil"]
                      /\ rpc' = "done"
                      /\ respBody' = FreshBody(res.resp)
                      /\ UNCHANGED wait
                 ELSE IF IsLastAttempt(attempt)
                   THEN /\ rres' = res
                        /\ rpc' = "done"
                        /\ respBody' = FreshBody(res.resp)
                        /\ UNCHANGED wait
                   ELSE /\ respBody' = IF DrainsAndCloses(res.resp) THEN "closed"
                                       ELSE FreshBody(res.resp)
                        /\ IF BackoffPanics(attempt, res.resp)
                             THEN /\ rpc' = "panicked"
                                  /\ UNCHANGED <<rres, wait>>
                             ELSE /\ wait' \in Backoff(attempt, res.resp)
                                  /\ rpc' = "sleeping"
                                  /\ UNCHANGED rres
    /\ UNCHANGED <<method, ctxMark, reqBody, maxRetries, waitMin, waitMax, attempt,
                   rctxDone>>

\* select, timer case: time.After(wait) fires while the context is not done,
\* or both channels are ready when the select is entered and the timer case
\* is picked; the loop goes on with the next attempt.
RTimerFires ==
    /\ rpc = "sleeping"
    /\ attempt' = attempt + 1
    /\ rpc' = "retry"
    /\ UNCHANGED <<method, ctxMark, reqBody, maxRetries, waitMin, waitMax, calls,
                   last, priorFailed, wait, rctxDone, rres, sentBody, respBody,
                   leaked>>

\* select, context case: the goroutine was woken by req.Context().Done(), or
\* the context was done before the select was entered; return nil, ctx.Err().
RCtxDone ==
    /\ \/ rpc = "cancelled"
       \/ rpc = "sleeping" /\ rctxDone
    /\ rres' = CtxDoneResult
    /\ rpc' = "done"
    /\ leaked' = (leaked \/ respBody = "open")
    /\ UNCHANGED <<method, ctxMark, reqBody, maxRetries, waitMin, waitMax, attempt,
                   calls, last, priorFailed, wait, rctxDone, sentBody, respBody>>

\* The request context is cancelled or its deadline passes. A goroutine
\* parked in the select between two attempts is woken by the Done channel
\* ("cancelled"): the timer that fires later no longer reaches it.
RCancel ==
    /\ ~rctxDone
    /\ rpc \in {"start", "sleeping", "retry"}
    /\ rctxDone' = TRUE
    /\ rpc' = IF rpc = "sleeping" THEN "cancelled" ELSE rpc
    /\ UNCHANGED <<method, ctxMark, reqBody, maxRetries, waitMin, waitMax,
                   attempt, calls, last, priorFailed, wait, rres, sentBody,
                   respBody, leaked>>

\* One call of backoff(attempt, resp), as RoundTrip makes it after a failed
\* attempt: it returns the wait, or panics in rand.Int63n.
BackoffCall ==
    /\ rpc = "backoff"
    /\ IF BackoffPanics(attempt, last.resp)
         THEN /\ rpc' = "panicked"
              /\ UNCHANGED wait
         ELSE /\ wait' \in Backoff(attempt, last.resp)
              /\ rpc' = "sleeping"
    /\ UNCHANGED <<method, ctxMark, reqBody, maxRetries, waitMin, waitMax, attempt,
                   calls, last, priorFailed, rctxDone, rres, sentBody, respBody,
                   leaked>>

\* --------------------------------------------------- errors and client calls

NoError == [kind |-> "none", status |-> 0]

\* A per-resource operation (GetDashboard and its like) on the (resp, err) the
\* transport chain returned: a transport error is wrapped, a status other
\* than 200 becomes an *APIError carrying that status.
ClientError(res) ==
    IF res.err # "nil" THEN [kind |-> "wrapped", status |-> 0]
    ELSE IF res.resp.status # 200 THEN [kind |-> "api", status |-> res.resp.status]
    ELSE NoError

\* errors.go IsServerError.
IsServerError_NoUpperLimit(e) == e.kind = "api" /\ e.status >= 500
IsServerError(e) == e.kind = "api" /\ e.status >= 500 /\ e.status < 600

\* -------------------------------------------------------------------- Iter

\* Most fetch invocations on one iterator.
MaxFetches == 3

\* Most Next() calls that find the iterator failed or out of pages.
MaxIdleCalls == 2

\* Pages, as newIter is given one and as fetch returns them.
Pages == {<<>>, <<"a">>, <<"a", "b">>, <<"b", "a", "c">>}

\* *string cursors: nil or a token.
Cursors == {"nil", "c1", "c2"}

\* Non-nil errors.
Errors == {"e1", "e2"}

\* What fetch(cursor) can return: (items, nextCursor, nil) or (nil, nil, err).
FetchResults ==
    {[items |-> p, next |-> c, err |-> "nil"] : p \in Pages, c \in Cursors}
        \cup {[items |-> <<>>, next |-> "nil", err |-> e] : e \in Errors}

\* newIter(items, hasMore, cursor, fetch); fetch is "fn" or "nil".
NewIter(items, hasMore, cursor, fetch) ==
    [cur |-> "nil", err |-> "nil", items |-> items, idx |-> -1,
     hasMore |-> hasMore, fetch |-> fetch, cursor |-> cursor]

\* newIterWithError(err)
NewIterWithError_ErrorDropped(e) ==
    [cur |-> "nil", err |-> "nil", items |-> <<>>, idx |-> -1,
     hasMore |-> FALSE, fetch |-> "nil", cursor |-> "nil"]
NewIterWithError(e) ==
    [cur |-> "nil", err |-> e, items |-> <<>>, idx |-> -1,
     hasMore |-> FALSE, fetch |-> "nil", cursor |-> "nil"]

\* it.items[i], with Go's indices from 0.
ItemAt(items, i) == items[i + 1]

\* `if it.err != nil`
AlreadyFailed_Ignored == FALSE
AlreadyFailed == it.err # "nil"

\* `it.cursor = nextCursor`
StoredCursor_Stale(nextCursor) == it.cursor
StoredCursor(nextCursor) == nextCursor

\* `it.hasMore = nextCursor != nil`
HasMoreAfter_Always(nextCursor) == TRUE
HasMoreAfter(nextCursor) == nextCursor # "nil"

\* `!it.hasMore || it.fetch == nil`
NothingToFetch_FetchUnchecked == ~it.hasMore
NothingToFetch == ~it.hasMore \/ it.fetch = "nil"

\* `it.err = err` after a failed fetch: the iterator Next() leaves behind.
FailedWith_CurrentCleared(e) ==
    [it EXCEPT !.idx = it.idx + 1, !.err = e, !.cur = "nil"]
FailedWith(e) == [it EXCEPT !.idx = it.idx + 1, !.err = e]

\* What a Next() call leaves in lastNext, looping and yielded.
Returns(result, current) ==
    /\ lastNext' = (IF result THEN "true" ELSE "false")
    /\ looping' = (looping /\ result)
    /\ yielded' = IF looping /\ result THEN Append(yielded, current) ELSE yielded

\* Next() on an iterator holding an error: return false.
NextFailed ==
    /\ AlreadyFailed
    /\ idle < MaxIdleCalls
    /\ idle' = idle + 1
    /\ Returns(FALSE, "nil")
    /\ UNCHANGED <<it, ctor, pages, pageCount, fetches, prevCursor, argsOk>>

\* Next() moving inside the current page.
NextInPage ==
    /\ ~AlreadyFailed
    /\ it.idx + 1 < Len(it.items)
    /\ it' = [it EXCEPT !.idx = it.idx + 1, !.cur = ItemAt(it.items, it.idx + 1)]
    /\ Returns(TRUE, ItemAt(it.items, it.idx + 1))
    /\ UNCHANGED <<ctor, pages, pageCount, fetches, prevCursor, argsOk, idle>>

\* Next() at the end of the page with nothing to fetch: `!it.hasMore ||
\* it.fetch == nil`.
NextExhausted ==
    /\ ~AlreadyFailed
    /\ it.idx + 1 >= Len(it.items)
    /\ NothingToFetch
    /\ idle < MaxIdleCalls
    /\ idle' = idle + 1
    /\ it' = [it EXCEPT !.idx = it.idx + 1]
    /\ Returns(FALSE, "nil")
    /\ UNCHANGED <<ctor, pages, pageCount, fetches, prevCursor, argsOk>>

\* Next() at the end of the page, fetching the next one with it.cursor.
NextFetch ==
    /\ ~AlreadyFailed
    /\ it.idx + 1 >= Len(it.items)
    /\ ~NothingToFetch
    /\ fetches < MaxFetches
    /\ fetches' = fetches + 1
    /\ argsOk' = (argsOk /\ it.cursor = prevCursor)
    /\ \E r \in FetchResults :
         IF r.err # "nil"
           THEN /\ it' = FailedWith(r.err)
                /\ Returns(FALSE, "nil")
                /\ UNCHANGED <<pages, pageCount, prevCursor>>
           ELSE /\ pages' = pages \o r.items
                /\ pageCount' = pageCount + 1
                /\ prevCursor' = r.next
                /\ IF Len(r.items) > 0
                     THEN /\ it' = [it EXCEPT !.items = r.items, !.idx = 0,
                                              !.cursor = StoredCursor(r.next),
                                              !.hasMore = HasMoreAfter(r.next),
                                              !.cur = ItemAt(r.items, 0)]
                          /\ Returns(TRUE, ItemAt(r.items, 0))
                     ELSE /\ it' = [it EXCEPT !.items = r.items, !.idx = 0,
                                              !.cursor = StoredCursor(r.next),
                                              !.hasMore = HasMoreAfter(r.next)]
                          /\ Returns(FALSE, "nil")
    /\ UNCHANGED <<ctor, idle>>

\* Nothing has been called on the iterator just built.
IterFresh ==
    /\ lastNext = "none"
    /\ looping = TRUE
    /\ yielded = <<>>
    /\ pages = it.items
    /\ pageCount = 1
    /\ fetches = 0
    /\ prevCursor = it.cursor
    /\ argsOk = TRUE
    /\ idle = 0

\* No iterator is in use.
IterUnused ==
    /\ it = NewIter(<<>>, FALSE, "nil", "nil")
    /\ ctor = [kind |-> "newIter", items |-> <<>>, hasMore |-> FALSE,
               cursor |-> "nil", fetch |-> "nil", err |-> "nil"]
    /\ IterFresh

\* --------------------------------------------------------------- NewClient

\* options.go: DefaultMaxConcurrentRequests.
DefaultMaxConcurrentRequests == 3

\* Strings are sequences of characters where a prefix is tested.
AuthPrefix == <<"a", "u", "t", "h", "_">>

HasPrefix(s, prefix) ==
    /\ Len(s) >= Len(prefix)
    /\ SubSeq(s, 1, Len(prefix)) = prefix

\* Values given to WithApiUrl and WithAuthToken.
ApiUrls == {"", "https://api.example"}

AuthTokens ==
    { <<>>,
      <<"a", "u", "t", "h", "_">>,
      <<"a", "u", "t", "h", "_", "x">>,
      <<"a", "u", "t", "h">>,
      <<"A", "U", "T", "H", "_", "x">>,
      <<"x", "a", "u", "t", "h", "_">>,
      <<"b", "e", "a", "r">> }

\* Values given to WithMaxConcurrentRequests.
ConfiguredConcurrency == -1..(MaxConcurrentRequests + 1)

\* An option is <<>> when NewClient is not passed it, <<v>> when passed v.
Optional(values) == {<<>>} \cup {<<v>> : v \in values}

OptionSets ==
    [apiUrl : Optional(ApiUrls),
     authToken : Optional(AuthTokens),
     maxConcurrent : Optional(ConfiguredConcurrency),
     maxRetries : Optional(ConfiguredRetries)]

\* defaultConfig(): the fields NewClient validates or clamps.
defaultConfig ==
    [apiUrl |-> "",
     authToken |-> <<>>,
     maxConcurrent |-> DefaultMaxConcurrentRequests,
     maxRetries |-> 1]

\* `for _, opt := range opts { opt(cfg) }` with the With... setters.
ApplyOptions(cfg, o) ==
    [apiUrl |-> IF o.apiUrl = <<>> THEN cfg.apiUrl ELSE o.apiUrl[1],
     authToken |-> IF o.authToken = <<>> THEN cfg.authToken ELSE o.authToken[1],
     maxConcurrent |-> IF o.maxConcurrent = <<>> THEN cfg.maxConcurrent
                       ELSE o.maxConcurrent[1],
     maxRetries |-> IF o.maxRetries = <<>> THEN cfg.maxRetries
                    ELSE o.maxRetries[1]]

\* "Validate required configuration": the error returned, "nil" for none.
ValidationError_PrefixUnchecked(cfg) ==
    IF cfg.apiUrl = "" THEN "apiUrlRequired"
    ELSE IF cfg.authToken = <<>> THEN "authTokenRequired"
    ELSE "nil"
ValidationError(cfg) ==
    IF cfg.apiUrl = "" THEN "apiUrlRequired"
    ELSE IF cfg.authToken = <<>> THEN "authTokenRequired"
    ELSE IF ~HasPrefix(cfg.authToken, AuthPrefix) THEN "authTokenPrefix"
    ELSE "nil"

\* "Clamp maxConcurrent to valid range".
ClampConcurrent_NoUpperLimit(n) == IF n < 1 THEN 1 ELSE n
ClampConcurrent(n) ==
    IF n < 1 THEN 1
    ELSE IF n > MaxConcurrentRequests THEN MaxConcurrentRequests
    ELSE n

\* "Clamp maxRetries to valid range".
ClampConfigRetries(n) ==
    IF n < 0 THEN 0 ELSE IF n > MaxRetries THEN MaxRetries ELSE n

\* newRateLimitedTransport: the size of the semaphore it creates.
newRateLimitedTransport(maxConcurrent) == maxConcurrent

\* The generated binding's constructor: it takes the base URL and the HTTP
\* client and returns the binding.
NewClientWithResponses(apiUrl) == [err |-> "nil"]

NotBuilt ==
    [called |-> FALSE, err |-> "nil", client |-> FALSE, limit |-> 0,
     maxRetries |-> 0]

Failed(e) ==
    [called |-> TRUE, err |-> e, client |-> FALSE, limit |-> 0,
     maxRetries |-> 0]

\* NewClient(opts...).
NewClient ==
    /\ ~built.called
    /\ LET cfg == ApplyOptions(defaultConfig, opts)
           invalid == ValidationError(cfg)
           maxConcurrent == ClampConcurrent(cfg.maxConcurrent)
           retries == ClampConfigRetries(cfg.maxRetries)
           inner == NewClientWithResponses(cfg.apiUrl)
       IN  built' =
             IF invalid # "nil" THEN Failed(invalid)
             ELSE IF inner.err # "nil" THEN Failed("createFailed")
             ELSE [called |-> TRUE, err |-> "nil", client |-> TRUE,
                   limit |-> newRateLimitedTransport(maxConcurrent),
                   maxRetries |-> ClampRetries(retries)]
    /\ UNCHANGED opts

\* NewClient has not been called and is passed no option.
ClientUnbuilt ==
    /\ opts = [apiUrl |-> <<>>, authToken |-> <<>>, maxConcurrent |-> <<>>,
               maxRetries |-> <<>>]
    /\ built = NotBuilt

\* ------------------------------------- per-resource operations and predicates

Operations == {"List", "Get", "Create", "Update", "Delete"}

\* Status codes of the response an operation receives from the binding.
StatusCodes ==
    {100, 199, 200, 201, 202, 204, 299, 300, 304, 399, 400, 401, 403, 404,
     409, 429, 499, 500, 503, 599, 600}

\* What the binding's ...WithResponse call returned: a response with a
\* status, or an error.
BindingResults ==
    {[status |-> s, err |-> "nil"] : s \in StatusCodes}
        \cup {[status |-> 0, err |-> "transportErr"]}

\* `resp.StatusCode() != http.StatusOK`, and for the Delete operations
\* `... && resp.StatusCode() != http.StatusNoContent`.
StatusAccepted(o, status) ==
    IF o = "Delete" THEN status = 200 \/ status = 204 ELSE status = 200

\* The error a per-resource operation returns.
OperationError(o, res) ==
    IF res.err # "nil" THEN [kind |-> "wrapped", status |-> 0]
    ELSE IF ~StatusAccepted(o, res.status) THEN [kind |-> "api", status |-> res.status]
    ELSE NoError

\* errors.go: the predicates assert `err.(*APIError)` and compare StatusCode.
IsAPIError(e) == e.kind = "api"
IsNotFound(e) == IsAPIError(e) /\ e.status = 404
IsUnauthorized(e) == IsAPIError(e) /\ e.status = 401
IsForbidden(e) == IsAPIError(e) /\ e.status = 403
IsRateLimited(e) == IsAPIError(e) /\ e.status = 429
IsBadRequest(e) == IsAPIError(e) /\ e.status = 400
IsConflict(e) == IsAPIError(e) /\ e.status = 409

\* The predicates that return true of an error.
Verdicts(e) ==
    {p \in {"IsNotFound", "IsUnauthorized", "IsForbidden", "IsRateLimited",
            "IsServerError", "IsBadRequest", "IsConflict"} :
        CASE p = "IsNotFound" -> IsNotFound(e)
          [] p = "IsUnauthorized" -> IsUnauthorized(e)
          [] p = "IsForbidden" -> IsForbidden(e)
          [] p = "IsRateLimited" -> IsRateLimited(e)
          [] p = "IsServerError" -> IsServerError(e)
          [] p = "IsBadRequest" -> IsBadRequest(e)
          [] p = "IsConflict" -> IsConflict(e)}

\* Errors a caller can hand to a predicate besides those the operations
\* return: nil, any other error, an *APIError of any status, and an
\* *APIError wrapped by fmt.Errorf with %w.
OtherErrors ==
    {NoError, [kind |-> "other", status |-> 0]}
        \cup {[kind |-> k, status |-> s] : k \in {"api", "wrappedApi"}, s \in StatusCodes}

\* A per-resource operation returns.
Operation ==
    /\ epc = "start"
    /\ opErr' = OperationError(op, final)
    /\ epc' = "returned"
    /\ UNCHANGED <<op, final, verdicts>>

\* The caller applies every predicate to the error the operation returned.
Classify ==
    /\ epc = "returned"
    /\ verdicts' = Verdicts(opErr)
    /\ epc' = "classified"
    /\ UNCHANGED <<op, final, opErr>>

\* The predicates are applied to an error that came from elsewhere.
ClassifyOther ==
    /\ epc = "start"
    /\ \E e \in OtherErrors :
         /\ opErr' = e
         /\ verdicts' = Verdicts(e)
    /\ epc' = "classifiedOther"
    /\ UNCHANGED <<op, final>>

\* No operation is under way.
NoOperation ==
    /\ op = "Get"
    /\ final = [status |-> 200, err |-> "nil"]
    /\ opErr = NoError
    /\ epc = "start"
    /\ verdicts = {}

\* ------------------------------------------------ POST operations and retry

\* The operations whose request is a POST, and the page fetches of the two
\* iterators built on GetSpans and GetLogRecords.
QueryCalls == {"GetSpans", "GetLogRecords", "GetSpansIterPage", "GetLogRecordsIterPage"}

WriteCalls ==
    {"CreateDashboard", "CreateView", "CreateCheckRule", "CreateSyntheticCheck",
     "CreateSamplingRule", "ImportDashboard", "ImportView", "ImportCheckRule",
     "ImportSyntheticCheck"}

PostCalls == QueryCalls \cup WriteCalls

\* The operation a call runs: a page fetch calls c.GetSpans or c.GetLogRecords.
OperationOf(call) ==
    CASE call = "GetSpansIterPage" -> "GetSpans"
      [] call = "GetLogRecordsIterPage" -> "GetLogRecords"
      [] OTHER -> call

\* `ctx = withIdempotent(ctx)` is the first statement of the operation.
MarksIdempotent_Never(operation) == FALSE
MarksIdempotent(operation) == operation \in {"GetSpans", "GetLogRecords"}

\* Contexts a caller can pass: the key type contextKey is unexported, so a
\* context built outside the package holds nothing under idempotentKey,
\* whatever it holds under a key of its own, a string "dash0_idempotent"
\* included.
CallerContexts == {"background", "ownKeyTrue"}

\* ctx.Value(idempotentKey) of a caller's context.
CallerMark(ctx) == "unset"

\* withIdempotent(ctx): context.WithValue(ctx, idempotentKey, true).
WithIdempotent(mark) == "true"

\* What the context handed to the binding holds under idempotentKey.
MarkHanded(call, ctx) ==
    IF MarksIdempotent(OperationOf(call)) THEN WithIdempotent(CallerMark(ctx))
    ELSE CallerMark(ctx)

\* The binding's Post...WithResponse: a POST request that carries the
\* context it was handed.
BindingRequest(call, mark) == <<"POST", mark>>

\* --------------------------------------------------------- transport stack

\* Callers that send a request through the stack at the same time.
NumStackCallers == 2

StackCallers == 1..NumStackCallers

\* Retry counts and limits the stack is built with.
StackRetries == {1, 2}

StackLimits == {1, 2}

\* Responses of the base transport: one that ends the loop, one that does not.
StackResponses == {r \in Responses : r.status \in {200, 500} /\ r.ra = <<>>}

\* `err == nil && !t.shouldRetry(resp)` does not hold of what the limiter
\* returned: an error of the base transport or of Acquire, or a response
\* shouldRetry accepts.
StackRetryable(outcome, resp) ==
    \/ outcome \in {"baseErr", "ctxErr"}
    \/ outcome = "resp" /\ ShouldRetry(resp)

\* retryTransport.RoundTrip after t.base.RoundTrip, here the limiter's
\* RoundTrip, has returned: return its result, or go on to the wait.
SDecide(c) ==
    /\ phase[c] = "attempting"
    /\ lpc[c] = "done"
    /\ \E resp \in StackResponses :
         phase' = [phase EXCEPT ![c] =
                     IF StackRetryable(lres[c], resp) /\ tries[c] < maxRetries
                       THEN "sleeping" ELSE "returned"]
    /\ UNCHANGED <<lvars, tries>>

\* The wait is over: the loop goes round and calls the limiter's RoundTrip
\* again.
STimerFires(c) ==
    /\ phase[c] = "sleeping"
    /\ tries' = [tries EXCEPT ![c] = @ + 1]
    /\ phase' = [phase EXCEPT ![c] = "attempting"]
    /\ lpc' = [lpc EXCEPT ![c] = "idle"]
    /\ UNCHANGED <<limit, cur, waiters, ctxDone, lres, baseCalls, cancelledWaiting>>

\* The select takes the context's Done case: return nil, ctx.Err().
SCtxDone(c) ==
    /\ phase[c] = "sleeping"
    /\ ctxDone[c]
    /\ phase' = [phase EXCEPT ![c] = "returned"]
    /\ lres' = [lres EXCEPT ![c] = "ctxErr"]
    /\ UNCHANGED <<limit, cur, waiters, lpc, ctxDone, baseCalls, cancelledWaiting, tries>>

\* The caller's context is cancelled during the wait.
SCancel(c) ==
    /\ phase[c] = "sleeping"
    /\ ~ctxDone[c]
    /\ ctxDone' = [ctxDone EXCEPT ![c] = TRUE]
    /\ UNCHANGED <<limit, cur, waiters, lpc, lres, baseCalls, cancelledWaiting, svars>>

\* No request is going through the stack.
StackUnused ==
    /\ phase = [c \in Callers |-> "attempting"]
    /\ tries = [c \in Callers |-> 0]

\* ----------------------------------------------------------------- APIError

\* A field of a JSON object: absent, null, a string, or a value of another
\* type (a number, an object).
JSONFields ==
    {[t |-> "absent", v |-> ""], [t |-> "null", v |-> ""],
     [t |-> "number", v |-> ""], [t |-> "object", v |-> ""]}
        \cup {[t |-> "string", v |-> x] : x \in {"", "m", "e"}}

NoField == [t |-> "absent", v |-> ""]

\* Response bodies: none (nil Body or no bytes), text that is not JSON, the
\* JSON values null and an array, and JSON objects with any `message` and
\* `error` fields.
Bodies ==
    {[kind |-> k, message |-> NoField, error |-> NoField] :
        k \in {"nil", "empty", "text", "null", "array"}}
        \cup {[kind |-> "object", message |-> m, error |-> e] :
                 m \in JSONFields, e \in JSONFields}

\* x-trace-id header: <<>> when absent, else its value.
TraceHeaders == {<<>>, <<"">>, <<"t1">>}

StatusTexts == {<<400, "400 Bad Request">>, <<500, "500 Internal Server Error">>}

APIResponses ==
    {[status |-> st[1], statusText |-> st[2], trace |-> h, body |-> b] :
        st \in StatusTexts, h \in TraceHeaders, b \in Bodies}

\* resp.Header.Get("x-trace-id")
HeaderGet(header) == IF header = <<>> THEN "" ELSE header[1]

\* What json.Unmarshal stores in a string field of errResp.
StringField(f) == IF f.t = "string" THEN f.v ELSE ""

\* A field that json.Unmarshal cannot store in a string.
Mistyped(f) == f.t \in {"number", "object"}

\* json.Unmarshal(body, &errResp) with errResp a struct of the strings
\* Message and Error: it fails on text that is not JSON, on a JSON value
\* that is no object or null, and on a field that is no string or null
\* (the other fields are still stored, and an UnmarshalTypeError returned).
Unmarshal(body) ==
    [ok |-> \/ body.kind = "null"
            \/ /\ body.kind = "object"
               /\ ~Mistyped(body.message)
               /\ ~Mistyped(body.error),
     message |-> StringField(body.message),
     error |-> StringField(body.error)]

\* `if json.Unmarshal(body, &errResp) == nil`
Parsed(u) == u.ok

\* The message newAPIErrorWithBody extracts.
ExtractMessage(body) ==
    IF body.kind \in {"nil", "empty"} THEN ""
    ELSE LET u == Unmarshal(body)
         IN  IF ~Parsed(u) THEN ""
             ELSE IF u.message # "" THEN u.message
             ELSE IF u.error # "" THEN u.error
             ELSE ""

\* NewAPIError / newAPIErrorWithBody.
NewAPIError(resp) ==
    [kind |-> "api", status |-> resp.status, statusText |-> resp.statusText,
     traceId |-> HeaderGet(resp.trace), message |-> ExtractMessage(resp.body)]

\* APIError.Error(), as the parts of the string it formats.
ErrorString(e) ==
    IF e.message # ""
      THEN IF e.traceId # ""
             THEN <<"dash0 api error: ", e.message, " (status: ", ToString(e.status),
                    ", trace_id: ", e.traceId, ")">>
             ELSE <<"dash0 api error: ", e.message, " (status: ",
                    ToString(e.status), ")">>
      ELSE IF e.traceId # ""
             THEN <<"dash0 api error: ", e.statusText, " (trace_id: ", e.traceId, ")">>
             ELSE <<"dash0 api error: ", e.statusText>>

NotConstructed ==
    [kind |-> "none", status |-> 0, statusText |-> "", traceId |-> "",
     message |-> ""]

\* The error is constructed from the response.
Construct ==
    /\ apiErr.kind = "none"
    /\ apiErr' = NewAPIError(aresp)
    /\ UNCHANGED <<aresp, rendered>>

\* Error() is called on the constructed error.
Render ==
    /\ apiErr.kind = "api"
    /\ rendered = <<>>
    /\ rendered' = ErrorString(apiErr)
    /\ UNCHANGED <<aresp, apiErr>>

\* No APIError is under construction.
NoAPIError ==
    /\ aresp = [status |-> 400, statusText |-> "400 Bad Request", trace |-> <<>>,
                body |-> [kind |-> "nil", message |-> NoField, error |-> NoField]]
    /\ apiErr = NotConstructed
    /\ rendered = <<>>

\* ------------------------------------------------------------ specifications

\* No call has entered the limiter yet.
LimiterFresh ==
    /\ cur = 0
    /\ waiters = <<>>
    /\ lpc = [c \in Callers |-> "idle"]
    /\ ctxDone = [c \in Callers |-> FALSE]
    /\ lres = [c \in Callers |-> "none"]
    /\ baseCalls = [c \in Callers |-> 0]
    /\ cancelledWaiting = {}

\* A retryTransport call that has not started.
RetryFresh ==
    /\ rpc = "start"
    /\ attempt = 0
    /\ calls = 0
    /\ last = NoResult
    /\ priorFailed = TRUE
    /\ wait = 0
    /\ rctxDone = FALSE
    /\ rres = NoResult
    /\ sentBody = "none"
    /\ respBody = "none"
    /\ leaked = FALSE

\* Limits under which the callers contend for permits, and the largest one.
LiveLimits == {1, 2, MaxConcurrentRequests}

\* newRateLimitedTransport(base, maxConcurrent) with maxConcurrent one of the
\* given limits.
InitLimiterWith(limits) ==
    /\ limit \in limits
    /\ LimiterFresh
    /\ NoAPIError
    /\ StackUnused
    /\ ClientUnbuilt
    /\ NoOperation
    /\ IterUnused
    /\ method = "GET" /\ ctxMark = "unset" /\ reqBody = "none"
    /\ maxRetries = 0 /\ waitMin = 1000000 /\ waitMax = 10000000
    /\ RetryFresh

\* maxConcurrent in 1..10, the range NewClient clamps to.
InitLimiter == InitLimiterWith(1..MaxConcurrentRequests)

\* newRetryTransport(base, maxRetries, waitMin, waitMax) and one request of
\* one of the given kinds.
InitRetryWith(kinds) ==
    /\ limit = 1
    /\ LimiterFresh
    /\ NoAPIError
    /\ StackUnused
    /\ ClientUnbuilt
    /\ NoOperation
    /\ IterUnused
    /\ \E k \in kinds : method = k[1] /\ ctxMark = k[2]
    /\ reqBody \in {"none", "replayable", "oneShot"}
    /\ \E n \in ConfiguredRetries : maxRetries = ClampRetries(n)
    /\ \E w \in WaitConfigs : waitMin = w[1] /\ waitMax = w[2]
    /\ RetryFresh

InitRetry == InitRetryWith(RequestKinds)

\* backoff called for any attempt index RoundTrip can pass (0..MaxRetries-1),
\* any response and any pair of positive waits.
InitBackoff ==
    /\ limit = 1
    /\ LimiterFresh
    /\ NoAPIError
    /\ StackUnused
    /\ ClientUnbuilt
    /\ NoOperation
    /\ IterUnused
    /\ method = "GET" /\ ctxMark = "unset" /\ reqBody = "none"
    /\ maxRetries = MaxRetries
    /\ \E w \in BackoffWaitConfigs : waitMin = w[1] /\ waitMax = w[2]
    /\ rpc = "backoff"
    /\ attempt \in 0..(MaxRetries - 1)
    /\ calls = attempt + 1
    /\ \E r \in BackoffResponses :
         last = [resp |-> r, err |-> IF r.kind = "nil" THEN "baseErr" ELSE "nil"]
    /\ priorFailed = TRUE
    /\ wait = 0
    /\ rctxDone = FALSE
    /\ rres = NoResult
    /\ sentBody = "none"
    /\ respBody = IF last.resp.kind = "nil" THEN "none" ELSE "closed"
    /\ leaked = FALSE

NextLimiter ==
    \E c \in Callers :
        \/ LAcquire(c) /\ UNCHANGED <<rvars, ivars, cvars, evars, svars, avars>>
        \/ LResume(c) /\ UNCHANGED <<rvars, ivars, cvars, evars, svars, avars>>
        \/ LAbort(c) /\ UNCHANGED <<rvars, ivars, cvars, evars, svars, avars>>
        \/ LBaseReturn(c) /\ UNCHANGED <<rvars, ivars, cvars, evars, svars, avars>>
        \/ LCancel(c) /\ UNCHANGED <<rvars, ivars, cvars, evars, svars, avars>>

NextRetry ==
    \/ RDirect /\ UNCHANGED <<lvars, ivars, cvars, evars, svars, avars>>
    \/ RAttempt /\ UNCHANGED <<lvars, ivars, cvars, evars, svars, avars>>
    \/ RTimerFires /\ UNCHANGED <<lvars, ivars, cvars, evars, svars, avars>>
    \/ RCtxDone /\ UNCHANGED <<lvars, ivars, cvars, evars, svars, avars>>
    \/ RCancel /\ UNCHANGED <<lvars, ivars, cvars, evars, svars, avars>>

\* An iterator built by newIter with any arguments, or by newIterWithError
\* with a non-nil error.
InitIter ==
    /\ limit = 1
    /\ LimiterFresh
    /\ NoAPIError
    /\ StackUnused
    /\ ClientUnbuilt
    /\ NoOperation
    /\ method = "GET" /\ ctxMark = "unset" /\ reqBody = "none"
    /\ maxRetries = 0 /\ waitMin = 1000000 /\ waitMax = 10000000
    /\ RetryFresh
    /\ \/ \E p \in Pages, h \in BOOLEAN, c \in Cursors, f \in {"fn", "nil"} :
            /\ it = NewIter(p, h, c, f)
            /\ ctor = [kind |-> "newIter", items |-> p, hasMore |-> h,
                       cursor |-> c, fetch |-> f, err |-> "nil"]
       \/ \E e \in Errors :
            /\ it = NewIterWithError(e)
            /\ ctor = [kind |-> "newIterWithError", items |-> <<>>,
                       hasMore |-> FALSE, cursor |-> "nil", fetch |-> "nil",
                       err |-> e]
    /\ IterFresh

NextIter ==
    \/ NextFailed /\ UNCHANGED <<lvars, rvars, cvars, evars, svars, avars>>
    \/ NextInPage /\ UNCHANGED <<lvars, rvars, cvars, evars, svars, avars>>
    \/ NextExhausted /\ UNCHANGED <<lvars, rvars, cvars, evars, svars, avars>>
    \/ NextFetch /\ UNCHANGED <<lvars, rvars, cvars, evars, svars, avars>>

NextBackoff == BackoffCall /\ UNCHANGED <<lvars, ivars, cvars, evars, svars, avars>>

SpecLimiter == InitLimiter /\ [][NextLimiter]_vars

\* The goroutines calling rateLimitedTransport.RoundTrip keep running while
\* they can: a forwarded base call returns, a waiter that is handed a permit
\* goes on, and a waiter whose context is done returns.
SpecLimiterLive ==
    /\ InitLimiterWith(LiveLimits)
    /\ [][NextLimiter]_vars
    /\ \A c \in Callers :
         /\ WF_vars(LResume(c) /\ UNCHANGED <<rvars, ivars, cvars, evars, svars, avars>>)
         /\ WF_vars(LAbort(c) /\ UNCHANGED <<rvars, ivars, cvars, evars, svars, avars>>)
         /\ WF_vars(LBaseReturn(c) /\ UNCHANGED <<rvars, ivars, cvars, evars, svars, avars>>)

SpecRetry == InitRetry /\ [][NextRetry]_vars

\* The goroutine running RoundTrip keeps running while it can: the base call
\* returns, and the select between two attempts returns once its timer has
\* fired or the context is done.
SelectReturns == RTimerFires \/ RCtxDone

SpecRetryLive ==
    /\ InitRetryWith(LiveRequestKinds)
    /\ [][NextRetry]_vars
    /\ WF_vars(RDirect /\ UNCHANGED <<lvars, ivars, cvars, evars, svars, avars>>)
    /\ WF_vars(RAttempt /\ UNCHANGED <<lvars, ivars, cvars, evars, svars, avars>>)
    /\ WF_vars(SelectReturns /\ UNCHANGED <<lvars, ivars, cvars, evars, svars, avars>>)

SpecBackoff == InitBackoff /\ [][NextBackoff]_vars

SpecIter == InitIter /\ [][NextIter]_vars

\* An APIError built from any response and rendered.
InitAPIError ==
    /\ limit = 1
    /\ LimiterFresh
    /\ StackUnused
    /\ ClientUnbuilt
    /\ NoOperation
    /\ IterUnused
    /\ method = "GET" /\ ctxMark = "unset" /\ reqBody = "none"
    /\ maxRetries = 0 /\ waitMin = 1000000 /\ waitMax = 10000000
    /\ RetryFresh
    /\ aresp \in APIResponses
    /\ apiErr = NotConstructed
    /\ rendered = <<>>

NextAPIError ==
    \/ Construct /\ UNCHANGED <<lvars, rvars, ivars, cvars, evars, svars>>
    \/ Render /\ UNCHANGED <<lvars, rvars, ivars, cvars, evars, svars>>

SpecAPIError == InitAPIError /\ [][NextAPIError]_vars

\* NewClient's stack, newRetryTransport(newRateLimitedTransport(base,
\* maxConcurrent), maxRetries, ...), and retry-eligible requests about to
\* be sent through it.
InitStack ==
    /\ limit \in StackLimits
    /\ LimiterFresh
    /\ NoAPIError
    /\ StackUnused
    /\ ClientUnbuilt
    /\ NoOperation
    /\ IterUnused
    /\ method = "GET" /\ ctxMark = "unset" /\ reqBody = "none"
    /\ maxRetries \in StackRetries
    /\ waitMin = 1000000 /\ waitMax = 10000000
    /\ RetryFresh

NextStack ==
    \E c \in StackCallers :
        \/ LAcquire(c) /\ UNCHANGED <<rvars, ivars, cvars, evars, svars, avars>>
        \/ LResume(c) /\ UNCHANGED <<rvars, ivars, cvars, evars, svars, avars>>
        \/ LAbort(c) /\ UNCHANGED <<rvars, ivars, cvars, evars, svars, avars>>
        \/ LBaseReturn(c) /\ UNCHANGED <<rvars, ivars, cvars, evars, svars, avars>>
        \/ LCancel(c) /\ UNCHANGED <<rvars, ivars, cvars, evars, svars, avars>>
        \/ SDecide(c) /\ UNCHANGED <<rvars, ivars, cvars, evars, avars>>
        \/ STimerFires(c) /\ UNCHANGED <<rvars, ivars, cvars, evars, avars>>
        \/ SCtxDone(c) /\ UNCHANGED <<rvars, ivars, cvars, evars, avars>>
        \/ SCancel(c) /\ UNCHANGED <<rvars, ivars, cvars, evars, avars>>

SpecStack == InitStack /\ [][NextStack]_vars

\* One POST operation of the client, called with any caller's context, and
\* the RoundTrip of the request it sends.
InitPost ==
    /\ limit = 1
    /\ LimiterFresh
    /\ NoAPIError
    /\ StackUnused
    /\ ClientUnbuilt
    /\ IterUnused
    /\ op \in PostCalls
    /\ final = [status |-> 200, err |-> "nil"]
    /\ opErr = NoError
    /\ epc = "start"
    /\ verdicts = {}
    /\ \E ctx \in CallerContexts :
         /\ method = BindingRequest(op, MarkHanded(op, ctx))[1]
         /\ ctxMark = BindingRequest(op, MarkHanded(op, ctx))[2]
    /\ reqBody \in {"replayable", "oneShot"}
    /\ \E n \in ConfiguredRetries : maxRetries = ClampRetries(n)
    /\ \E w \in WaitConfigs : waitMin = w[1] /\ waitMax = w[2]
    /\ RetryFresh

SpecPost == InitPost /\ [][NextRetry]_vars

\* NewClient called with any combination of the options.
InitNewClient ==
    /\ limit = 1
    /\ LimiterFresh
    /\ NoAPIError
    /\ StackUnused
    /\ method = "GET" /\ ctxMark = "unset" /\ reqBody = "none"
    /\ maxRetries = 0 /\ waitMin = 1000000 /\ waitMax = 10000000
    /\ RetryFresh
    /\ IterUnused
    /\ opts \in OptionSets
    /\ built = NotBuilt
    /\ NoOperation

NextNewClient == NewClient /\ UNCHANGED <<lvars, rvars, ivars, evars, svars, avars>>

SpecNewClient == InitNewClient /\ [][NextNewClient]_vars

\* Any operation on any outcome of the binding's call.
InitOperation ==
    /\ limit = 1
    /\ LimiterFresh
    /\ NoAPIError
    /\ StackUnused
    /\ method = "GET" /\ ctxMark = "unset" /\ reqBody = "none"
    /\ maxRetries = 0 /\ waitMin = 1000000 /\ waitMax = 10000000
    /\ RetryFresh
    /\ IterUnused
    /\ ClientUnbuilt
    /\ op \in Operations
    /\ final \in BindingResults
    /\ opErr = NoError
    /\ epc = "start"
    /\ verdicts = {}

NextOperation ==
    \/ Operation /\ UNCHANGED <<lvars, rvars, ivars, cvars, svars, avars>>
    \/ Classify /\ UNCHANGED <<lvars, rvars, ivars, cvars, svars, avars>>
    \/ ClassifyOther /\ UNCHANGED <<lvars, rvars, ivars, cvars, svars, avars>>

SpecOperation == InitOperation /\ [][NextOperation]_vars

InBase == {c \in Callers : lpc[c] = "inBase"}

Returned == {c \in Callers : lpc[c] \in {"done", "panicked"}}

\* C1: at most `limit` calls are inside the base transport's RoundTrip at any
\* time, for every limit in 1..10 and any burst of concurrent callers.
C1_AtMostLimitInBase == Cardinality(InBase) <= limit

\* A burst larger than the limit: the pool is exhausted and a caller queues.
C1_Witness == Cardinality(InBase) = limit /\ waiters # <<>>

\* C2: a caller whose context is cancelled while it is blocked in Acquire never
\* reaches the base transport; once it has returned, it returned the context's
\* error, it is out of the queue and it holds no permit (the permits held are
\* exactly those of the calls inside the base transport).
C2_CancelledWaiterAcquiresNothing ==
    \A c \in cancelledWaiting :
        /\ baseCalls[c] = 0
        /\ lpc[c] \in {"waiting", "done"}
        /\ lpc[c] = "done" =>
              /\ lres[c] = "ctxErr"
              /\ \A i \in 1..Len(waiters) : waiters[i] # c
              /\ cur = Cardinality(InBase)

\* A cancelled waiter has returned while another call still holds the permit
\* it was waiting for.
C2_Witness ==
    \E c \in cancelledWaiting :
        /\ lpc[c] = "done"
        /\ cur = limit
        /\ InBase # {}

\* C3: every acquired permit is released exactly once when the base call
\* returns, with a response, an error or a panic: the permits held are exactly
\* those of the calls inside the base transport, the count never leaves
\* 0..limit, and once every call has returned all permits are free again.
C3_PermitsHeldEqualInBase ==
    /\ cur = Cardinality(InBase)
    /\ cur \in 0..limit
    /\ (Returned = Callers => cur = 0)

\* Every call has returned, one with a response and one with an error.
C3_Witness ==
    /\ Returned = Callers
    /\ \E c \in Callers : lres[c] = "baseErr"
    /\ \E c \in Callers : lres[c] = "resp"
    /\ \A c \in Callers : baseCalls[c] = 1

\* ------------------------------------------------ retryTransport: claims

\* The call went through the attempt loop and the latest attempt is the one
\* just made: it returned, panicked in backoff or sleeps before the next one.
AfterAttempt ==
    /\ calls = attempt + 1
    /\ rpc \in {"sleeping", "done", "panicked"}
    /\ rres.err \notin {"ctxErr", "bodyErr"}

\* C4: for a retry-eligible request and maxRetries >= 1, once k <= maxRetries
\* attempts have failed with a transport error, a 429 or a 5xx and attempt k+1
\* has returned any other response, with the context not cancelled, RoundTrip
\* has returned that response with a nil error (after exactly k+1 attempts).
C4_ReturnsFirstNonRetryable ==
    ( /\ IsIdempotent(method, ctxMark)
      /\ maxRetries >= 1
      /\ calls >= 1
      /\ calls <= maxRetries + 1
      /\ priorFailed
      /\ last.err = "nil"
      /\ ~FailedRetryably(last)
      /\ ~rctxDone )
    => /\ rpc = "done"
       /\ rres = [resp |-> last.resp, err |-> "nil"]

\* C5: RoundTrip never makes more than maxRetries + 1 attempts; for a
\* retry-eligible request whose attempts all failed with a transport error, a
\* 429 or a 5xx and whose context is not cancelled, the call ends only after
\* exactly maxRetries + 1 attempts, returning the last attempt's response and
\* error unchanged, and a final 5xx is a server error for the caller.
C5_ExhaustsAfterMaxRetriesPlusOne ==
    /\ calls <= maxRetries + 1
    /\ ( /\ IsIdempotent(method, ctxMark)
         /\ rpc \in {"done", "panicked"}
         /\ priorFailed
         /\ FailedRetryably(last)
         /\ ~rctxDone
         /\ rres.err # "bodyErr" )
       => /\ rpc = "done"
          /\ calls = maxRetries + 1
          /\ rres = last
          /\ (last.resp.status \in 500..599 => IsServerError(ClientError(rres)))

\* C6: a request whose method is none of GET, PUT, DELETE, HEAD, OPTIONS and
\* whose context is not marked idempotent reaches the base transport exactly
\* once, whatever maxRetries and the outcome are, and RoundTrip returns that
\* one result unchanged, never sleeping.
C6_NonIdempotentSentOnce ==
    ( /\ method \notin {"GET", "PUT", "DELETE", "HEAD", "OPTIONS"}
      /\ ctxMark # "true" )
    => /\ calls <= 1
       /\ rpc \in {"start", "done"}
       /\ (rpc = "done" => calls = 1 /\ rres = last)

\* A POST that failed with a 500 under maxRetries = 5 was sent once.
C6_Witness ==
    /\ method = "POST"
    /\ ctxMark = "unset"
    /\ maxRetries = MaxRetries
    /\ rpc = "done"
    /\ calls = 1
    /\ rres.resp.status = 500

\* How an attempt loop proceeds, as a function of the configuration and of
\* the attempts' outcomes alone: after each attempt the call has returned
\* that attempt's result when it was not retryable or was the last one
\* allowed, and otherwise sleeps (or has panicked computing the wait).
RetryLoopBehaviour ==
    /\ rpc = "sleeping" =>
         /\ calls = attempt + 1
         /\ attempt < maxRetries
         /\ (last.err # "nil" \/ ShouldRetry(last.resp))
         /\ ~BackoffPanics(attempt, last.resp)
    /\ rpc = "panicked" =>
         /\ calls = attempt + 1
         /\ attempt < maxRetries
         /\ (last.err # "nil" \/ ShouldRetry(last.resp))
         /\ BackoffPanics(attempt, last.resp)
    /\ (rpc = "done" /\ rres.err \notin {"ctxErr", "bodyErr"}) =>
         /\ calls = attempt + 1
         /\ rres = last
         /\ \/ attempt = maxRetries
            \/ last.err = "nil" /\ ~ShouldRetry(last.resp)

\* C7: a POST (or PATCH) whose context is marked idempotent goes through the
\* attempt loop exactly as a GET does (the same number of attempts and the
\* same result for the same outcomes and configuration); one whose context is
\* unmarked, or holds anything but the boolean true, is sent once.
C7_MarkedPostRetriedLikeGet ==
    /\ (method = "GET" => RetryLoopBehaviour)
    /\ (method \in {"POST", "PATCH"} /\ ctxMark = "true" => RetryLoopBehaviour)
    /\ (method \in {"POST", "PATCH"} /\ ctxMark # "true" =>
          calls <= 1 /\ rpc \in {"start", "done"})

\* A marked POST failed once with a 500 and succeeded on the second attempt.
C7_Witness ==
    /\ method = "POST"
    /\ ctxMark = "true"
    /\ rpc = "done"
    /\ calls = 2
    /\ priorFailed
    /\ rres.err = "nil"
    /\ rres.resp.status = 200

\* C8: for a retry-eligible request, an attempt that returns without error a
\* status in 200..499 other than 429 ends the call at once with that response,
\* whatever maxRetries is.
C8_NoRetryOn2xxTo4xx ==
    ( /\ IsIdempotent(method, ctxMark)
      /\ calls >= 1
      /\ last.err = "nil"
      /\ last.resp.status \in 200..499
      /\ last.resp.status # 429 )
    => /\ rpc = "done"
       /\ rres = [resp |-> last.resp, err |-> "nil"]

\* A GET answered 404 under maxRetries = 5 was attempted once.
C8_Witness ==
    /\ method = "GET"
    /\ maxRetries = MaxRetries
    /\ rpc = "done"
    /\ calls = 1
    /\ rres.resp.status = 404

\* C9: after an attempt that is not the last one allowed, the call goes on
\* (sleeps for a retry) if and only if the attempt ended in a transport error,
\* a 429 or a status in 500..599; any other status, below 200 and from 600 up
\* included, ends the call with that response.
C9_RetryableIffErrorOr429Or5xx ==
    ( /\ IsIdempotent(method, ctxMark)
      /\ maxRetries >= 1
      /\ AfterAttempt
      /\ attempt < maxRetries )
    => ((rpc = "done" /\ rres = last) <=> ~FailedRetryably(last))

\* C10: after a 429 carrying Retry-After: 0 the wait before the next attempt
\* is zero.
C10_RetryAfterZeroIsImmediate ==
    ( /\ rpc = "sleeping"
      /\ last.err = "nil"
      /\ last.resp.status = 429
      /\ last.resp.ra = <<"0">> )
    => wait = 0

\* ------------------------------------------------------- backoff: claims

\* s seconds or waitMax, whichever is less, for a number s > 0 of seconds held
\* in a word: three seconds and more are above every waitMax of WaitConfigs
\* and BackoffWaitConfigs.
MinOfSecondsAndWaitMax(s) ==
    IF FitsInt(s) /\ IntOf(s) <= 2 /\ IntOf(s) * Second < waitMax
      THEN IntOf(s) * Second
      ELSE waitMax

\* The waits exponential backoff allows after attempt k: b up to, but not
\* including, b + b/4, with b = min(waitMin * 2^k, waitMax).
InJitterRange(w, k) ==
    LET b == IF waitMin * Pow2(k) > waitMax THEN waitMax ELSE waitMin * Pow2(k)
    IN  b <= w /\ 4 * w < 5 * b

\* C11: when the response carries a Retry-After header that parses as an
\* integer s > 0, the wait backoff returns is exactly min(s seconds, waitMax),
\* whatever the attempt index is; with a missing, non-integer or non-positive
\* header the wait is the exponential one.
C11_RetryAfterWaitExact ==
    rpc = "sleeping" =>
      IF UsesRetryAfter(last.resp)
        THEN wait = MinOfSecondsAndWaitMax(Atoi(last.resp.ra).mag)
        ELSE InJitterRange(wait, attempt)

\* The least wait backoff can return after attempt k when no Retry-After
\* header is usable: the one with a jitter of zero.
BaseWait(k) ==
    CHOOSE w \in Backoff(k, NilResp) : \A v \in Backoff(k, NilResp) : w <= v

\* The un-jittered wait never decreases from one attempt to the next.
BaseWaitNonDecreasing ==
    \A k \in 0..(MaxRetries - 2) :
        (~BackoffPanics(k, NilResp) /\ ~BackoffPanics(k + 1, NilResp))
            => BaseWait(k) <= BaseWait(k + 1)

C13_WaitNeverExceedsWaitMax == rpc = "sleeping" => wait <= waitMax

\* ------------------------------------- retryTransport: claims, continued

\* C14: with maxRetries 0, to which every negative configured value is
\* clamped, RoundTrip forwards the request to the base transport exactly
\* once, for every method and outcome, never sleeps and returns the base
\* result unchanged.
C14_NoRetriesForwardsOnce ==
    /\ \A n \in ConfiguredRetries : n <= 0 => ClampRetries(n) = 0
    /\ maxRetries = 0 =>
         /\ calls <= 1
         /\ rpc \in {"start", "done"}
         /\ wait = 0
         /\ (rpc = "done" => calls = 1 /\ rres = last)

\* A GET answered 500 under maxRetries = 0 was sent once and the 500 returned.
C14_Witness ==
    /\ maxRetries = 0
    /\ method = "GET"
    /\ rpc = "done"
    /\ calls = 1
    /\ rres.err = "nil"
    /\ rres.resp.status = 500

\* C15: once the context is cancelled while RoundTrip waits between two
\* attempts, the next thing the call does is return a nil response and the
\* context's error, without another base call, and it does so eventually.
C15_CancelDuringBackoffReturns ==
    /\ [][rpc = "cancelled" =>
            /\ rpc' = "done"
            /\ rres' = [resp |-> NilResp, err |-> "ctxErr"]
            /\ calls' = calls]_vars
    /\ (rpc = "cancelled" ~> rpc = "done")

\* The context was cancelled during the wait after the second attempt.
C15_Witness ==
    /\ rpc = "cancelled"
    /\ calls = 2
    /\ attempt = 1

C17_ResponsesDrainedOrReturned ==
    /\ ~leaked
    /\ rpc \in {"sleeping", "cancelled", "retry", "panicked"} => respBody # "open"
    /\ rpc = "done" =>
         IF rres.resp.kind # "nil"
           THEN rres.resp = last.resp /\ respBody = "open"
           ELSE respBody # "open"

\* A call ended by cancellation during its second wait: both responses it
\* received had been drained and closed.
C17_Witness ==
    /\ rpc = "done"
    /\ calls = 2
    /\ rres.err = "ctxErr"
    /\ last.resp.kind = "resp"
    /\ respBody = "closed"

\* ----------------------------------------------------------- Iter: claims

\* The step in which a `for it.Next() { it.Current() }` loop ends without an
\* error on an iterator built by newIter.
LoopEndsWithoutError ==
    /\ looping
    /\ ~looping'
    /\ ctor.kind = "newIter"
    /\ it'.err = "nil"

C19_FetchErrorIsSticky ==
    /\ [][(it.err = "nil" /\ it'.err # "nil") =>
            (lastNext' = "false" /\ fetches' = fetches + 1)]_vars
    /\ [][it.err # "nil" =>
            (it'.err = it.err /\ fetches' = fetches /\ lastNext' = "false")]_vars

\* After some items the second fetch failed, and Next() was called again as
\* often as the model goes.
C19_Witness ==
    /\ ctor.kind = "newIter"
    /\ it.err = "e1"
    /\ fetches = 2
    /\ yielded # <<>>
    /\ idle = MaxIdleCalls

\* C20: an iterator built by newIterWithError(e) holds e from the start:
\* every Next() returns false, Err() is e, Current() is nil and fetch is never
\* invoked.
C20_ErroredFromConstruction ==
    ctor.kind = "newIterWithError" =>
        /\ it.err = ctor.err
        /\ it.cur = "nil"
        /\ fetches = 0
        /\ lastNext \in {"none", "false"}
        /\ yielded = <<>>

\* Next() was called on it as often as the model goes.
C20_Witness ==
    /\ ctor.kind = "newIterWithError"
    /\ lastNext = "false"
    /\ idle = MaxIdleCalls

\* The iterator is Errored, or Exhausted: a Next() found the page used up
\* with hasMore false or no fetch function, and returned false.
Errored == it.err # "nil"

Exhausted ==
    /\ ~Errored
    /\ lastNext = "false"
    /\ it.idx >= Len(it.items)
    /\ (~it.hasMore \/ it.fetch = "nil")

\* C21: Current() is nil while Next() has not been called and whenever the
\* latest Next() returned false, after exhaustion and after a fetch error
\* too; when the latest Next() returned true it is the item at idx.
C21_CurrentNilUnlessNextTrue ==
    /\ lastNext \in {"none", "false"} => it.cur = "nil"
    /\ lastNext = "true" => it.cur = ItemAt(it.items, it.idx)

\* C22: while the iterator is neither Exhausted nor Errored,
\* -1 <= idx < len(items).
C22_IndexWithinPage ==
    (~Exhausted /\ ~Errored) => (-1 <= it.idx /\ it.idx < Len(it.items))

\* C23 as stated: whatever arguments newIter was given, hasMore implies a
\* cursor that is not nil.
C23_HasMoreImpliesCursor ==
    ctor.kind = "newIter" => (it.hasMore => it.cursor # "nil")

\* C23, amended: when newIter was given a cursor with hasMore = true, as all
\* its callers do, hasMore implies a non-nil cursor in every state.
C23_HasMoreImpliesCursorIfGiven ==
    (ctor.kind = "newIter" /\ (ctor.hasMore => ctor.cursor # "nil"))
        => (it.hasMore => it.cursor # "nil")

\* A second page came with a cursor, a third without.
C23_Witness ==
    /\ ctor.kind = "newIter"
    /\ ctor.hasMore /\ ctor.cursor = "c1"
    /\ fetches = 2
    /\ ~it.hasMore
    /\ it.cursor = "nil"
    /\ it.err = "nil"

\* C24: a Next() that finds the page used up with hasMore false or no fetch
\* function returns false without a fetch and without an error, and leaves
\* the iterator so that the same holds of every later Next().
C24_ExhaustedStaysExhausted ==
    [][( /\ it.err = "nil"
         /\ it.idx + 1 >= Len(it.items)
         /\ (~it.hasMore \/ it.fetch = "nil") )
       => /\ lastNext' = "false"
          /\ fetches' = fetches
          /\ it'.err = "nil"
          /\ it'.idx + 1 >= Len(it'.items)
          /\ (~it'.hasMore \/ it'.fetch = "nil")]_vars

\* An iterator given hasMore = true but no fetch function, after its two
\* items and as many further Next() calls as the model goes.
C24_Witness ==
    /\ ctor.kind = "newIter"
    /\ ctor.hasMore /\ ctor.fetch = "nil"
    /\ yielded = <<"a", "b">>
    /\ idle = MaxIdleCalls
    /\ fetches = 0

GivenApiUrl == IF opts.apiUrl = <<>> THEN "" ELSE opts.apiUrl[1]

GivenAuthToken == IF opts.authToken = <<>> THEN <<>> ELSE opts.authToken[1]

GivenMaxConcurrent ==
    IF opts.maxConcurrent = <<>> THEN DefaultMaxConcurrentRequests
    ELSE opts.maxConcurrent[1]

StartsWithAuth(token) ==
    /\ Len(token) >= 5
    /\ token[1] = "a" /\ token[2] = "u" /\ token[3] = "t" /\ token[4] = "h"
    /\ token[5] = "_"

ValidUrlAndToken == GivenApiUrl # "" /\ StartsWithAuth(GivenAuthToken)

Clamp(n, lo, hi) == IF n < lo THEN lo ELSE IF n > hi THEN hi ELSE n

\* C26: NewClient returns an error and no client exactly when the API URL is
\* empty, the auth token is empty or the auth token does not start with
\* "auth_"; otherwise, whatever the numeric options, it returns a client and
\* no error.
C26_ErrorIffUrlOrTokenInvalid ==
    built.called =>
        /\ (built.err # "nil") <=>
             (GivenApiUrl = "" \/ GivenAuthToken = <<>>
                 \/ ~StartsWithAuth(GivenAuthToken))
        /\ built.client <=> (built.err = "nil")

\* A token that holds "auth_" but not at its start is rejected.
C26_Witness ==
    /\ built.called
    /\ opts.apiUrl = <<"https://api.example">>
    /\ opts.authToken = << <<"x", "a", "u", "t", "h", "_">> >>
    /\ built.err = "authTokenPrefix"
    /\ ~built.client

\* C27: the limiter's limit is clamp(maxConcurrent, 1, 10) and the retry
\* transport's retry count is clamp(maxRetries, 0, 5) for every value
\* configured, and a value out of range never makes NewClient fail.
C27_LimitsClampedNeverRejected ==
    (built.called /\ ValidUrlAndToken) =>
        /\ built.client /\ built.err = "nil"
        /\ built.limit = Clamp(GivenMaxConcurrent, 1, 10)
        /\ built.limit \in 1..10
        /\ built.maxRetries \in 0..5
        /\ opts.maxRetries # <<>> =>
             built.maxRetries = Clamp(opts.maxRetries[1], 0, 5)

\* Eleven concurrent requests and minus one retries were asked for.
C27_Witness ==
    /\ built.called
    /\ opts.maxConcurrent = <<MaxConcurrentRequests + 1>>
    /\ opts.maxRetries = <<-1>>
    /\ built.client
    /\ built.limit = MaxConcurrentRequests
    /\ built.maxRetries = 0

\* The retry count of a client built without WithMaxRetries.
DefaultRetries == ClampRetries(ClampConfigRetries(defaultConfig.maxRetries))

\* C28: under the default configuration a retry-eligible request whose every
\* attempt fails with a transport error, a 429 or a 5xx is attempted 3 times
\* before the failure is returned.
C28_DefaultThreeAttempts ==
    ( /\ maxRetries = DefaultRetries
      /\ IsIdempotent(method, ctxMark)
      /\ rpc = "done"
      /\ rres = last
      /\ priorFailed
      /\ FailedRetryably(last) )
    => calls = 3

\* ------------------------------------- operations and predicates: claims

\* C29: an operation returns an *APIError, carrying the response's status,
\* exactly when the final response's status is outside 200..299; a transport
\* failure is returned as a wrapped error that is not an *APIError.
C29_APIErrorIffNon2xx ==
    epc \in {"returned", "classified"} =>
        /\ final.err = "nil" =>
             /\ (opErr.kind = "api") <=> (final.status \notin 200..299)
             /\ opErr.kind = "api" => opErr.status = final.status
             /\ opErr.kind \in {"api", "none"}
        /\ final.err # "nil" => opErr.kind = "wrapped"

\* The statuses each predicate answers true for.
MatchingStatuses ==
    [IsNotFound |-> {404}, IsUnauthorized |-> {401}, IsForbidden |-> {403},
     IsRateLimited |-> {429}, IsBadRequest |-> {400}, IsConflict |-> {409},
     IsServerError |-> 500..599]

\* C30: each predicate is true exactly of an *APIError whose status is the
\* predicate's (500..599 for IsServerError, 600 excluded); of an error that
\* is not an *APIError every predicate is false; at most one predicate is
\* true of any error.
C30_PredicatesMatchExactStatus ==
    epc \in {"classified", "classifiedOther"} =>
        /\ \A p \in DOMAIN MatchingStatuses :
             (p \in verdicts) <=>
                 (opErr.kind = "api" /\ opErr.status \in MatchingStatuses[p])
        /\ opErr.kind # "api" => verdicts = {}
        /\ Cardinality(verdicts) <= 1

\* A Delete answered 600 returned an *APIError no predicate is true of.
C30_Witness ==
    /\ epc = "classified"
    /\ op = "Delete"
    /\ final.status = 600
    /\ opErr = [kind |-> "api", status |-> 600]
    /\ verdicts = {}

\* ------------------------------------------------- Iter: further claims

\* C34: once a Next() has returned false, every later Next() returns false
\* and fetch is not invoked again.
C34_FalseIsTerminal ==
    [][lastNext = "false" => (lastNext' = "false" /\ fetches' = fetches)]_vars

C38_BackoffReturnsForEveryConfig ==
    (waitMin > 0 /\ waitMax > 0 /\ attempt \in 0..(MaxRetries - 1))
        => rpc \in {"backoff", "sleeping"}

\* ------------------------------------------------ RoundTrip: termination

\* C37: a RoundTrip call ends; a wait begins only right after an attempt that
\* was not the last one allowed and that ended in a transport error, a 429 or
\* a 5xx, so there are at most maxRetries waits; an attempt after the first
\* follows a wait that has run out; and once the call has returned nothing
\* more is computed or awaited.
C37_TerminatesWithBoundedWaits ==
    /\ [](attempt <= maxRetries /\ calls <= maxRetries + 1)
    /\ [][ /\ (rpc' = "sleeping" /\ rpc # "sleeping") =>
                /\ calls' = calls + 1
                /\ attempt' = attempt
                /\ attempt < maxRetries
                /\ FailedRetryably(last')
           /\ (calls' = calls + 1 /\ calls >= 1) =>
                /\ rpc = "retry"
                /\ calls = attempt
           /\ (rpc' = "retry" /\ rpc # "retry") =>
                (rpc = "sleeping" /\ attempt' = attempt + 1)
           /\ rpc = "done" => (rpc' = "done" /\ calls' = calls /\ wait' = wait)
         ]_vars
    /\ <>(rpc \in {"done", "panicked"})

\* ------------------------------------------ rateLimitedTransport: liveness

\* C36: every call that has entered RoundTrip returns: a waiting caller whose
\* context is not cancelled is forwarded, one whose context is cancelled
\* returns the context's error, and callers do not stay waiting while a
\* permit is free.
C36_EveryCallReturns ==
    /\ \A c \in Callers :
         /\ (lpc[c] \in {"waiting", "inBase"}) ~> (lpc[c] \in {"done", "panicked"})
         /\ (lpc[c] = "waiting") ~> (lpc[c] = "inBase" \/ ctxDone[c])
         /\ (lpc[c] = "waiting" /\ ctxDone[c])
                ~> (lpc[c] = "done" /\ lres[c] = "ctxErr")
    /\ (waiters # <<>> /\ cur < limit) ~> (waiters = <<>> \/ cur = limit)

\* With one permit, one caller is in the base transport, one waits and one
\* that waited with a cancelled context has returned the context's error.
C36_Witness ==
    /\ limit = 1
    /\ \E a, b, c \in Callers :
         /\ lpc[a] = "inBase"
         /\ lpc[b] = "waiting" /\ ~ctxDone[b]
         /\ lpc[c] = "done" /\ lres[c] = "ctxErr" /\ c \in cancelledWaiting

\* ------------------------------------------------ POST operations: claims

\* C32: the request of GetSpans and GetLogRecords, page fetches of their
\* iterators included, is marked idempotent whatever context the caller
\* passed, and RoundTrip takes it through the attempt loop; the request of
\* every other POST operation is not marked and is sent exactly once.
C32_QueriesMarkedWritesSentOnce ==
    /\ method = "POST"
    /\ op \in QueryCalls =>
         /\ ctxMark = "true"
         /\ RetryLoopBehaviour
         /\ (rpc = "done" /\ rres = last /\ FailedRetryably(last))
                => calls = maxRetries + 1
    /\ op \in WriteCalls =>
         /\ ctxMark # "true"
         /\ calls <= 1
         /\ rpc \in {"start", "done"}
         /\ (rpc = "done" => calls = 1 /\ rres = last)

\* A page fetch of GetSpansIter was answered 503 and then 200.
C32_Witness ==
    /\ op = "GetSpansIterPage"
    /\ rpc = "done"
    /\ calls = 2
    /\ priorFailed
    /\ rres.err = "nil"
    /\ rres.resp.status = 200

\* ------------------------------------------------ transport stack: claims

\* C33: in the stack the permits held are exactly the attempts inside the
\* base transport, one per attempt and at most the limit; a caller that
\* sleeps between two attempts, or has returned, is not among them, so the
\* permits free for others are the limit less the attempts in the base
\* transport.
C33_SleepingCallersHoldNoPermit ==
    LET inBase == {c \in Callers : lpc[c] = "inBase"}
        resting == {c \in Callers : phase[c] \in {"sleeping", "returned"}}
    IN  /\ cur = Cardinality(inBase)
        /\ Cardinality(inBase) <= limit
        /\ inBase \cap resting = {}
        /\ limit - cur = limit - Cardinality(inBase \ resting)
        /\ \A c \in Callers : baseCalls[c] <= tries[c] + 1

\* With one permit, one caller sleeps after a failed attempt while the other
\* is inside the base transport on its second attempt.
C33_Witness ==
    /\ limit = 1
    /\ \E a, b \in StackCallers :
         /\ phase[a] = "sleeping" /\ baseCalls[a] = 1 /\ lres[a] = "baseErr"
         /\ lpc[b] = "inBase" /\ tries[b] = 1 /\ baseCalls[b] = 2
    /\ cur = 1

\* ------------------------------------------------------- APIError: claims

\* A field that is a non-empty string.
NonEmptyString(f) == f.t = "string" /\ f.v # ""

\* The message the extraction rule names: the non-empty `message` of a body
\* that is a JSON object, else its non-empty `error`, else nothing.
RuleMessage(body) ==
    IF body.kind # "object" THEN ""
    ELSE IF NonEmptyString(body.message) THEN body.message.v
    ELSE IF NonEmptyString(body.error) THEN body.error.v
    ELSE ""

\* C31: an APIError is constructed from every response; its message is the
\* one the extraction rule names, its trace id the x-trace-id header or
\* empty; Error() renders message and trace id, else the message, else status
\* text and trace id, else the status text.
C31_MessageTraceAndRendering ==
    /\ apiErr.kind = "api" =>
         /\ apiErr.status = aresp.status
         /\ apiErr.message = RuleMessage(aresp.body)
         /\ apiErr.traceId = (IF aresp.trace = <<>> THEN "" ELSE aresp.trace[1])
    /\ (rendered # <<>> /\ apiErr.message # "" /\ apiErr.traceId # "") =>
         rendered = <<"dash0 api error: ", apiErr.message, " (status: ",
                      ToString(apiErr.status), ", trace_id: ", apiErr.traceId, ")">>
    /\ (rendered # <<>> /\ apiErr.message # "" /\ apiErr.traceId = "") =>
         rendered = <<"dash0 api error: ", apiErr.message, " (status: ",
                      ToString(apiErr.status), ")">>
    /\ (rendered # <<>> /\ apiErr.message = "" /\ apiErr.traceId # "") =>
         rendered = <<"dash0 api error: ", apiErr.statusText, " (trace_id: ",
                      apiErr.traceId, ")">>
    /\ (rendered # <<>> /\ apiErr.message = "" /\ apiErr.traceId = "") =>
         rendered = <<"dash0 api error: ", apiErr.statusText>>

====
